---- MODULE Spec2Model ----
(***************************************************************************)
(* Model of the Actual Budget -> Xero sync add-on:                         *)
(*   - ActualBudgetClient (services/actual.js, the last class of the file, *)
(*     in which a later method of the same name replaces an earlier one),  *)
(*   - HomeAssistantService (services/home-assistant.js),                  *)
(*   - ActualXeroSyncApp (the application entry point).                    *)
(*   - the Reprocessing Engine and the Store Client's rate limiter, whose  *)
(*     sources are not part of the tree and which follow the design of the *)
(*     specification.                                                      *)
(* Strings are sequences of one-character strings, so that trim, split,    *)
(* toLowerCase and includes are computed as JavaScript computes them.      *)
(***************************************************************************)
EXTENDS Integers, Sequences, FiniteSets, TLC

VARIABLES
    \* appendTags applied as a pure function (specification SpecTags)
    existingNotes, newTags, once, twice, tagPc,
    \* ActualBudgetClient fields
    isAuthenticated, token, headerToken, budgetId,
    \* the Actual Budget server: the token it accepts, whether it may fail,
    \* the ledger
    serverToken, serverFaults, txAttrs, notes,
    \* updateTransactionNotes calls between their read and their write
    calls,
    \* the outcome of the last completed client call, and the marker appends
    \* that completed successfully
    ret, applied,
    \* HomeAssistantService fields, and whether init() has run
    syncStatus, lastSyncTime, lastError, syncCount, entities, haReady,
    \* the handleSyncTrigger calls in progress, the HTTP response each request
    \* got last, and the clock
    triggers, responses, now,
    \* ActualXeroSyncApp: isShuttingDown, the connections of the HTTP server,
    \* whether the process has exited, and when the first signal arrived
    isShuttingDown, connections, exited, shutdownAt,
    \* the Reprocessing Engine's queue of RetryItems
    retryItems,
    \* the Store Client's rate limiter: the tokens in the bucket, the times
    \* at which taken tokens come back, the callers, and the times at which
    \* calls were dispatched
    tokens, tokenReturns, workers, dispatched

tagVars == <<existingNotes, newTags, once, twice, tagPc>>
clientVars == <<isAuthenticated, token, headerToken, budgetId>>
serverVars == <<serverToken, serverFaults, txAttrs, notes>>
ledgerVars == <<clientVars, serverVars, calls, ret, applied>>
appVars == <<isShuttingDown, connections, exited, shutdownAt>>
retryVars == <<retryItems>>
rateVars == <<tokens, tokenReturns, workers, dispatched>>
engineVars == <<retryVars, rateVars>>
haVars == <<syncStatus, lastSyncTime, lastError, syncCount, entities, haReady,
           triggers, responses, now, appVars, engineVars>>
vars == <<tagVars, ledgerVars, haVars>>

(***************************************************************************)
(* Bounds of the model.                                                    *)
(***************************************************************************)
MaxNotesLen == 4
MaxTagsLen == 3
\* transactions of the ledgers the selection is checked on, and of the
\* ledgers the concurrent marker appends are checked on
MaxTx == 2
MaxRaceTx == 1
\* days of the calendar, concurrent client calls
MaxDay == 2
MaxCalls == 2
\* concurrent HTTP requests, syncs started, ticks of the clock
MaxRequests == 2
MaxSyncs == 2
MaxTime == 2
\* the Reprocessing Engine: RetryItems in the queue, the configured maximum
\* of attempts, ticks of the clock
MaxRetryItems == 2
MaxAttempts == 2
MaxRetryTime == 4
\* the Store Client's limiter: the configured quota of requests per window,
\* the ticks of the clock in a window of 60 seconds, concurrent callers,
\* ticks of the clock
RateLimitPerWindow == 2
WindowTicks == 3
MaxWorkers == 3
MaxRateTime == 6

(***************************************************************************)
(* JavaScript string operations used by appendTags.                        *)
(***************************************************************************)
Range(s) == {s[i] : i \in 1..Len(s)}

\* String.prototype.toLowerCase, one character
LowerChar(ch) ==
    CASE ch = "A" -> "a"
      [] ch = "X" -> "x"
      [] OTHER -> ch

\* String.prototype.toLowerCase
ToLower(s) == [i \in 1..Len(s) |-> LowerChar(s[i])]

RECURSIVE TrimLeft(_)
TrimLeft(s) == IF s # <<>> /\ Head(s) = " " THEN TrimLeft(Tail(s)) ELSE s

RECURSIVE TrimRight(_)
TrimRight(s) ==
    IF s # <<>> /\ s[Len(s)] = " " THEN TrimRight(SubSeq(s, 1, Len(s) - 1)) ELSE s

\* String.prototype.trim
Trim(s) == TrimRight(TrimLeft(s))

\* String.prototype.includes: sub occurs in s as a substring
Includes(s, sub) ==
    \E i \in 0..(Len(s) - Len(sub)) : SubSeq(s, i + 1, i + Len(sub)) = sub

\* String.prototype.split(' '): the parts between single spaces, empty parts kept
RECURSIVE SplitFrom(_, _)
SplitFrom(s, cur) ==
    IF s = <<>> THEN <<cur>>
    ELSE IF Head(s) = " " THEN <<cur>> \o SplitFrom(Tail(s), <<>>)
    ELSE SplitFrom(Tail(s), Append(cur, Head(s)))

Split(s) == SplitFrom(s, <<>>)

\* String.prototype.startsWith('#')
StartsWithHash(tag) == tag # <<>> /\ Head(tag) = "#"

\* Array.prototype.join(' ')
RECURSIVE Join(_)
Join(parts) ==
    IF parts = <<>> THEN <<>>
    ELSE IF Len(parts) = 1 THEN Head(parts)
    ELSE Head(parts) \o <<" ">> \o Join(Tail(parts))

\* appendTags without the duplicate check: every '#' tag is appended
appendTags_NoDedup(oldNotes, tags) ==
    IF Trim(tags) = <<>> THEN oldNotes
    ELSE IF Trim(oldNotes) = <<>> THEN Trim(tags)
    ELSE LET tagsToAdd == SelectSeq(Split(Trim(tags)), StartsWithHash)
         IN  IF tagsToAdd = <<>> THEN oldNotes
             ELSE Trim(Trim(oldNotes) \o <<" ">> \o Join(tagsToAdd))

\* ActualBudgetClient.appendTags(existingNotes, newTags)
appendTags(oldNotes, tags) ==
    IF Trim(tags) = <<>> THEN oldNotes
    ELSE LET cleanTags == Trim(tags) IN
         IF Trim(oldNotes) = <<>> THEN cleanTags
         ELSE LET existingTagsLower == ToLower(oldNotes)
                  newTagsArray == SelectSeq(Split(cleanTags), StartsWithHash)
                  tagsToAdd == SelectSeq(newTagsArray,
                                   LAMBDA tag : ~Includes(existingTagsLower, ToLower(tag)))
              IN  IF tagsToAdd = <<>> THEN oldNotes
                  ELSE Trim(Trim(oldNotes) \o <<" ">> \o Join(tagsToAdd))

\* The non-empty space-separated tokens of a string
Tokens(s) == SelectSeq(Split(s), LAMBDA part : part # <<>>)

\* The tokens of result that follow the tokens oldNotes already had
AddedTokens(oldNotes, result) ==
    SubSeq(Tokens(result), Len(Tokens(oldNotes)) + 1, Len(Tokens(result)))

\* Some token of oldNotes equals tag, ignoring case
HasToken(oldNotes, tag) ==
    \E i \in 1..Len(Tokens(oldNotes)) : ToLower(Tokens(oldNotes)[i]) = ToLower(tag)

(***************************************************************************)
(* The ledger (the Actual Budget server) and the client's requests.        *)
(***************************************************************************)
\* the ids of the transactions the ledger holds
TxIds == DOMAIN txAttrs
Days == 1..MaxDay
Calls == 1..MaxCalls

\* a transaction id the ledger does not hold
MissingTx == 0

\* tokens the server issues on login
AuthTokens == {"tokenA", "tokenB"}

\* categories of the ledger and the category group of each
Categories == {"catBusiness", "catPersonal"}
CategoryGroups == {"grpBusiness", "grpPersonal"}
GroupOf(category) ==
    IF category = "catBusiness" THEN "grpBusiness" ELSE "grpPersonal"

\* the budget files the server lists
ServerBudgets == <<"budget1">>

TxAttrs == [date : Days, cleared : BOOLEAN, reconciled : BOOLEAN,
            category : Categories]

\* A transaction object as the server returns it
TxObject(t) ==
    [id |-> t, date |-> txAttrs[t].date, cleared |-> txAttrs[t].cleared,
     reconciled |-> txAttrs[t].reconciled, category |-> txAttrs[t].category,
     notes |-> notes[t]]

\* All transactions, in ledger order
AllTransactions == [t \in TxIds |-> TxObject(t)]

\* The client's fields and the server's session, threaded through one call;
\* reqs is the requests the call has issued, err the error it threw
World ==
    [isAuthenticated |-> isAuthenticated, token |-> token,
     headerToken |-> headerToken, budgetId |-> budgetId,
     serverToken |-> serverToken, reqs |-> <<>>, err |-> "none"]

Req(w, endpoint, outcome) ==
    [w EXCEPT !.reqs = Append(@, <<endpoint, outcome>>)]

\* BaseApiClient.get/post/patch of a data endpoint: the server answers 401
\* unless the X-ACTUAL-TOKEN header carries the token it accepts; otherwise
\* the answer is the one the server chose
DataOutcome(w, chosen) ==
    IF w.serverToken # "none" /\ w.headerToken = w.serverToken
    THEN chosen ELSE "authExpired"

LoginOutcomes == {"nested", "direct", "noToken", "rejected"}

\* authenticate that stores the token without setting the header, and that
\* leaves the flag alone when the login fails
authenticate_FlagOnly(w, login, issued) ==
    LET w1 == Req(w, "POST /account/login", login)
    IN  IF login \in {"nested", "direct"}
        THEN [w1 EXCEPT !.token = issued, !.isAuthenticated = TRUE,
                        !.serverToken = issued]
        ELSE [w1 EXCEPT !.err = IF login = "noToken"
                                THEN "No token received from authentication"
                                ELSE "login rejected"]

\* ActualBudgetClient.authenticate
authenticate(w, login, issued) ==
    LET w1 == Req(w, "POST /account/login", login)
    IN  IF login \in {"nested", "direct"}
        THEN [w1 EXCEPT !.token = issued, !.headerToken = issued,
                        !.isAuthenticated = TRUE, !.serverToken = issued]
        ELSE [w1 EXCEPT !.isAuthenticated = FALSE,
                        !.err = IF login = "noToken"
                                THEN "No token received from authentication"
                                ELSE "login rejected"]

\* ActualBudgetClient.testConnectivity followed by the caller's test
testConnectivity(w, probe) == Req(w, "GET /", probe)

\* ensureAuthenticated that swallows the failure of authenticate
ensureAuthenticated_IgnoresFailure(w, probe, login, issued) ==
    IF w.isAuthenticated THEN w
    ELSE [authenticate(testConnectivity(w, probe), login, issued)
             EXCEPT !.err = "none"]

\* ensureAuthenticated that logs in first and probes afterwards
ensureAuthenticated_LoginFirst(w, probe, login, issued) ==
    IF w.isAuthenticated THEN w
    ELSE LET w1 == authenticate(w, login, issued)
             w2 == testConnectivity(w1, probe)
         IN  IF w1.err # "none" THEN w1
             ELSE IF probe # "ok"
             THEN [w2 EXCEPT !.err = "Cannot connect to Actual Budget server"]
             ELSE w2

\* ActualBudgetClient.ensureAuthenticated
ensureAuthenticated(w, probe, login, issued) ==
    IF w.isAuthenticated THEN w
    ELSE LET w1 == testConnectivity(w, probe)
         IN  IF probe # "ok"
             THEN [w1 EXCEPT !.err = "Cannot connect to Actual Budget server"]
             ELSE authenticate(w1, login, issued)

\* What the server may answer to GET /sync/list-user-files: the budgets as an
\* array, under files, budgets or data, data that is no array, another
\* object, no budgets at all, an HTML page, or a failure; files that is no
\* array; an array whose first element is null
ListShapes == {"array", "files", "budgets", "dataArray", "dataOther",
               "object", "emptyArray", "string", "error",
               "filesOther", "nullArray"}
AltShapes == {"array", "other", "error", "nullArray"}

\* The budgets getBudgets extracts from the first endpoint's answer; a
\* budget object without id, fileId or name is "noId"
BudgetsOfList(outcome) ==
    CASE outcome \in {"array", "files", "budgets", "dataArray"} -> ServerBudgets
      [] outcome = "object" -> <<"noId">>
      [] outcome = "nullArray" -> <<"null">>
      [] OTHER -> <<>>

\* budgets.length === 0 after the first endpoint: false for budgets found and
\* for a files value that is no array (its length is undefined)
AsksFallback(outcome) ==
    BudgetsOfList(outcome) = <<>> /\ outcome # "filesOther"

\* ActualBudgetClient.getBudgets after ensureAuthenticated: the world and
\* the budgets returned.  Object.keys(budgets[0]), evaluated for the debug
\* log of a non-empty list, throws a TypeError when the first element is null
getBudgets(w, list, alt) ==
    LET o1 == DataOutcome(w, list)
        w1 == Req(w, "GET /sync/list-user-files", o1)
        b1 == BudgetsOfList(o1)
        o2 == DataOutcome(w1, alt)
        w2 == Req(w1, "GET /api/budgets", o2)
        b2 == CASE o2 = "array" -> ServerBudgets
                [] o2 = "nullArray" -> <<"null">>
                [] OTHER -> <<>>
        got == IF AsksFallback(o1) THEN [w |-> w2, budgets |-> b2]
               ELSE [w |-> w1, budgets |-> b1]
    IN  IF got.budgets # <<>> /\ got.budgets[1] = "null"
        THEN [w |-> [got.w EXCEPT
                        !.err = "Cannot convert undefined or null to object"],
              budgets |-> <<>>]
        ELSE got

StatusOutcomes == {"ok", "non200", "error"}

\* loadBudget that probes all three endpoints whatever the first answers
loadBudget_ProbesAll(w, id, sync, download, access) ==
    LET w1 == Req(w, "POST /sync/sync since=null", DataOutcome(w, sync))
        w2 == Req(w1, "POST /sync/download-user-file", DataOutcome(w1, download))
        o3 == DataOutcome(w2, access)
        w3 == Req([w2 EXCEPT !.budgetId = id], "GET /api/categories", o3)
    IN  IF o3 \in {"ok", "non200"} THEN w3
        ELSE [w3 EXCEPT !.err = "Cannot access budget data"]

\* ActualBudgetClient.loadBudget after ensureAuthenticated
loadBudget(w, id, sync, download, access) ==
    LET o1 == DataOutcome(w, sync)
        w1 == Req(w, "POST /sync/sync since=null", o1)
        o2 == DataOutcome(w1, download)
        w2 == Req(w1, "POST /sync/download-user-file", o2)
        o3 == DataOutcome(w2, access)
        w3 == Req([w2 EXCEPT !.budgetId = id], "GET /api/categories", o3)
    IN  IF o1 = "ok" THEN [w1 EXCEPT !.budgetId = id]
        ELSE IF o2 = "ok" THEN [w2 EXCEPT !.budgetId = id]
        ELSE IF o3 \in {"ok", "non200"} THEN w3
        ELSE [w3 EXCEPT !.err = "Cannot access budget data"]

\* ActualBudgetClient.autoLoadBudget
autoLoadBudget(w, list, alt, sync, download, access) ==
    LET got == getBudgets(w, list, alt)
    IN  IF got.w.err # "none" THEN got.w
        ELSE IF got.budgets = <<>>
        THEN [got.w EXCEPT !.err = "No budgets available to load"]
        ELSE IF got.budgets[1] = "noId"
        THEN [got.w EXCEPT !.err = "Cannot determine budget ID"]
        ELSE loadBudget(got.w, got.budgets[1], sync, download, access)

(***************************************************************************)
(* HomeAssistantService and the routes that trigger a sync.                *)
(***************************************************************************)
Requests == 1..MaxRequests

\* null, a Date, and Date.prototype.toISOString
Null == <<>>
DateOf(time) == <<time>>
toISOString(date) == <<"iso", date[1]>>

\* HomeAssistantService.getStatusIcon
getStatusIcon(status) ==
    CASE status = "idle" -> "mdi:sync"
      [] status = "running" -> "mdi:sync-circle"
      [] status = "completed" -> "mdi:check-circle"
      [] status = "error" -> "mdi:alert-circle"
      [] OTHER -> "mdi:sync"

\* updateEntity that keeps the state of an entity it already holds
updateEntity_KeepsState(all, entityId, state, icon) ==
    [id \in DOMAIN all \cup {entityId} |->
        IF id = entityId
        THEN [entity_id |-> <<"sensor.actual_xero_sync_", entityId>>,
              state |-> IF id \in DOMAIN all THEN all[id].state ELSE state,
              icon |-> icon,
              last_updated |-> toISOString(DateOf(now))]
        ELSE all[id]]

\* HomeAssistantService.updateEntity: the entities with entityId set
updateEntity(all, entityId, state, icon) ==
    [id \in DOMAIN all \cup {entityId} |->
        IF id = entityId
        THEN [entity_id |-> <<"sensor.actual_xero_sync_", entityId>>,
              state |-> state, icon |-> icon,
              last_updated |-> toISOString(DateOf(now))]
        ELSE all[id]]

\* HomeAssistantService.getEntities: the values of the Map, in the order in
\* which init inserted the keys
EntityOrder == <<"sync_status", "last_sync", "sync_count", "last_error">>

getEntities ==
    LET present == SelectSeq(EntityOrder, LAMBDA id : id \in DOMAIN entities)
    IN  [i \in 1..Len(present) |-> entities[present[i]]]

\* HomeAssistantService.getStatus
getStatus ==
    [status |-> syncStatus, last_sync |-> lastSyncTime,
     sync_count |-> syncCount, last_error |-> lastError,
     entities |-> getEntities]

\* The state after the constructors
HAConstructed ==
    /\ syncStatus = "idle"
    /\ lastSyncTime = Null
    /\ lastError = "null"
    /\ syncCount = 0
    /\ entities = <<>>
    /\ haReady = FALSE
    /\ triggers = [r \in Requests |-> [pc |-> "idle"]]
    /\ responses = [r \in Requests |-> [status |-> 0]]
    /\ now = 0
    /\ isShuttingDown = FALSE
    /\ connections = [r \in Requests |-> "closed"]
    /\ exited = FALSE
    /\ shutdownAt = Null

\* HomeAssistantService.init, called by initializeServices before the server
\* listens
HAInit ==
    /\ ~haReady
    /\ haReady' = TRUE
    /\ entities' =
        updateEntity(
            updateEntity(
                updateEntity(
                    updateEntity(entities, "sync_status", "idle", "mdi:sync"),
                    "last_sync", Null, "mdi:clock-outline"),
                "sync_count", 0, "mdi:counter"),
            "last_error", "null", "mdi:alert-circle-outline")
    /\ UNCHANGED <<tagVars, ledgerVars, engineVars,
                   appVars, syncStatus, lastSyncTime,
                   lastError, syncCount, triggers, responses, now>>

\* Time passes
Tick ==
    /\ now < MaxTime
    /\ now' = now + 1
    /\ UNCHANGED <<tagVars, ledgerVars, engineVars,
                   appVars, syncStatus, lastSyncTime,
                   lastError, syncCount, entities, haReady, triggers, responses>>

\* the routes that call handleSyncTrigger, and what each answers with the
\* call's result
TriggerRoutes == {"/api/sync/trigger", "/api/homeassistant/sync/trigger"}

RouteResponse(route, result) ==
    IF route = "/api/sync/trigger"
    THEN IF result.success
         THEN [status |-> 200, message |-> result.message]
         ELSE [status |-> 500, error |-> result.error]
    ELSE IF result.success
         THEN [status |-> 200, body |-> result]
         ELSE [status |-> 500, body |-> result]

\* handleSyncTrigger up to its await of simulateSync, for request r on route:
\* updateSyncStatus('running') and the sync_started event
TriggerStart(r, route) ==
    /\ haReady
    /\ ~exited
    /\ connections[r] = "open"
    /\ triggers[r].pc = "idle"
    /\ syncCount + Cardinality({q \in Requests : triggers[q].pc = "syncing"})
           < MaxSyncs
    /\ triggers' = [triggers EXCEPT ![r] = [pc |-> "syncing", route |-> route]]
    /\ syncStatus' = "running"
    /\ entities' = updateEntity(entities, "sync_status", "running",
                                getStatusIcon("running"))
    /\ responses' = [responses EXCEPT ![r] = [status |-> 0]]
    /\ UNCHANGED <<tagVars, ledgerVars, engineVars,
                   appVars, lastSyncTime, lastError,
                   syncCount, haReady, now>>

\* handleSyncTrigger whose success path leaves out incrementSyncCount
TriggerSucceed_NoCount(r) ==
    /\ ~exited
    /\ triggers[r].pc = "syncing"
    /\ syncStatus' = "completed"
    /\ lastSyncTime' = DateOf(now)
    /\ lastError' = "null"
    /\ entities' =
        updateEntity(
            updateEntity(
                updateEntity(entities, "sync_status", "completed",
                             getStatusIcon("completed")),
                "last_sync", toISOString(DateOf(now)), "mdi:clock-check-outline"),
            "last_error", "null", "mdi:check-circle-outline")
    /\ LET result == [success |-> TRUE,
                       message |-> "Sync completed successfully"]
       IN  /\ triggers' = [triggers EXCEPT ![r] =
                               [pc |-> "idle", result |-> result]]
           /\ responses' = [responses EXCEPT ![r] =
                                RouteResponse(triggers[r].route, result)]
    /\ UNCHANGED <<tagVars, ledgerVars, engineVars,
                   appVars, syncCount, haReady, now>>

\* handleSyncTrigger after simulateSync resolved: completed, last sync,
\* count, error cleared; the route answers 200
TriggerSucceed(r) ==
    /\ ~exited
    /\ triggers[r].pc = "syncing"
    /\ syncStatus' = "completed"
    /\ lastSyncTime' = DateOf(now)
    /\ syncCount' = syncCount + 1
    /\ lastError' = "null"
    /\ entities' =
        updateEntity(
            updateEntity(
                updateEntity(
                    updateEntity(entities, "sync_status", "completed",
                                 getStatusIcon("completed")),
                    "last_sync", toISOString(DateOf(now)), "mdi:clock-check-outline"),
                "sync_count", syncCount + 1, "mdi:counter"),
            "last_error", "null", "mdi:check-circle-outline")
    /\ LET result == [success |-> TRUE,
                       message |-> "Sync completed successfully"]
       IN  /\ triggers' = [triggers EXCEPT ![r] =
                               [pc |-> "idle", result |-> result]]
           /\ responses' = [responses EXCEPT ![r] =
                                RouteResponse(triggers[r].route, result)]
    /\ UNCHANGED <<tagVars, ledgerVars, engineVars,
                   appVars, haReady, now>>

\* handleSyncTrigger whose catch block also does the bookkeeping of a
\* completed sync (last sync time and count)
TriggerFail_RecordsSync(r) ==
    /\ ~exited
    /\ triggers[r].pc = "syncing"
    /\ syncStatus' = "error"
    /\ lastSyncTime' = DateOf(now)
    /\ syncCount' = syncCount + 1
    /\ lastError' = "Simulated sync failure for testing"
    /\ entities' =
        updateEntity(
            updateEntity(
                updateEntity(
                    updateEntity(entities, "sync_status", "error",
                                 getStatusIcon("error")),
                    "last_sync", toISOString(DateOf(now)), "mdi:clock-check-outline"),
                "sync_count", syncCount + 1, "mdi:counter"),
            "last_error", "Simulated sync failure for testing", "mdi:alert-circle")
    /\ LET result == [success |-> FALSE,
                       error |-> "Simulated sync failure for testing"]
       IN  /\ triggers' = [triggers EXCEPT ![r] =
                               [pc |-> "idle", result |-> result]]
           /\ responses' = [responses EXCEPT ![r] =
                                RouteResponse(triggers[r].route, result)]
    /\ UNCHANGED <<tagVars, ledgerVars, engineVars,
                   appVars, haReady, now>>

\* handleSyncTrigger after simulateSync threw: error status and last error;
\* the route answers 500
TriggerFail(r) ==
    /\ ~exited
    /\ triggers[r].pc = "syncing"
    /\ syncStatus' = "error"
    /\ lastError' = "Simulated sync failure for testing"
    /\ entities' =
        updateEntity(
            updateEntity(entities, "sync_status", "error", getStatusIcon("error")),
            "last_error", "Simulated sync failure for testing", "mdi:alert-circle")
    /\ LET result == [success |-> FALSE,
                       error |-> "Simulated sync failure for testing"]
       IN  /\ triggers' = [triggers EXCEPT ![r] =
                               [pc |-> "idle", result |-> result]]
           /\ responses' = [responses EXCEPT ![r] =
                                RouteResponse(triggers[r].route, result)]
    /\ UNCHANGED <<tagVars, ledgerVars, engineVars,
                   appVars, lastSyncTime, syncCount,
                   haReady, now>>

(***************************************************************************)
(* ActualXeroSyncApp: the HTTP server's connections and the shutdown.      *)
(***************************************************************************)
\* this.activeOperations: a Set that no code adds to or deletes from
activeOperations == {}

\* the timeout of shutdown's wait for the active operations, in seconds
ShutdownTimeout == 30

\* A client connects to the listening server to send request r; a server
\* that server.close() was called on accepts no connection
Connect(r) ==
    /\ haReady
    /\ ~exited
    /\ ~isShuttingDown
    /\ connections[r] = "closed"
    /\ connections' = [connections EXCEPT ![r] = "open"]
    /\ UNCHANGED <<tagVars, ledgerVars, engineVars,
                   syncStatus, lastSyncTime, lastError,
                   syncCount, entities, haReady, triggers, responses, now,
                   isShuttingDown, exited, shutdownAt>>

\* The connection of request r ends: the client closes or drops it, before
\* or after the response
Disconnect(r) ==
    /\ ~exited
    /\ connections[r] = "open"
    /\ connections' = [connections EXCEPT ![r] = "closed"]
    /\ UNCHANGED <<tagVars, ledgerVars, engineVars,
                   syncStatus, lastSyncTime, lastError,
                   syncCount, entities, haReady, triggers, responses, now,
                   isShuttingDown, exited, shutdownAt>>

\* ActualXeroSyncApp.shutdown(signal): with no active operation it does not
\* wait and calls server.close, whose callback exits the process
Shutdown(signal) ==
    /\ haReady
    /\ ~exited
    /\ activeOperations = {}
    /\ isShuttingDown' = TRUE
    /\ shutdownAt' = IF isShuttingDown THEN shutdownAt ELSE DateOf(now)
    /\ UNCHANGED <<tagVars, ledgerVars, engineVars,
                   syncStatus, lastSyncTime, lastError,
                   syncCount, entities, haReady, triggers, responses, now,
                   connections, exited>>

\* The callback of server.close: every connection has ended, process.exit(0)
Exit ==
    /\ isShuttingDown
    /\ ~exited
    /\ \A r \in Requests : connections[r] = "closed"
    /\ exited' = TRUE
    /\ UNCHANGED <<tagVars, ledgerVars, engineVars,
                   syncStatus, lastSyncTime, lastError,
                   syncCount, entities, haReady, triggers, responses, now,
                   isShuttingDown, connections, shutdownAt>>

(***************************************************************************)
(* The Reprocessing Engine: the queue of RetryItems and the retry passes.  *)
(***************************************************************************)
StageOrder == <<"mapping", "staging", "posting">>
Stages == Range(StageOrder)

\* the keys of the durable queue: (transactionId, stage), transaction by
\* transaction
RetryKeys ==
    {<<((i - 1) \div 3) + 1, StageOrder[((i - 1) % 3) + 1]>> :
        i \in 1..MaxRetryItems}

RECURSIVE Pow2(_)
Pow2(n) == IF n = 0 THEN 1 ELSE 2 * Pow2(n - 1)

\* exponential backoff: the delay after the failure of attempt number
\* attempts
Backoff(attempts) == Pow2(attempts - 1)

\* a retry pass that also selects abandoned and exhausted items
RetryEligible_IgnoresAbandoned(item) ==
    item.status # "in-progress" /\ item.nextEligibleAt <= now

\* The items a retry pass selects: due, below the maximum, not abandoned
RetryEligible(item) ==
    /\ item.status = "pending"
    /\ item.nextEligibleAt <= now
    /\ item.attempts < MaxAttempts

\* The state of the engine's queue and of the Store Client's limiter before
\* any run: no RetryItem, a full bucket, no caller
EngineConstructed ==
    /\ retryItems = <<>>
    /\ tokens = RateLimitPerWindow
    /\ tokenReturns = <<>>
    /\ workers = [w \in 1..MaxWorkers |-> "idle"]
    /\ dispatched = <<>>

\* A stage of the pipeline fails non-fatally for a transaction: a RetryItem
\* is created
EnqueueRetry(key) ==
    /\ key \notin DOMAIN retryItems
    /\ retryItems' =
        [k \in DOMAIN retryItems \cup {key} |->
            IF k = key
            THEN [transactionId |-> key[1], stage |-> key[2], attempts |-> 0,
                  lastError |-> "StageFailure", nextEligibleAt |-> now,
                  status |-> "pending"]
            ELSE retryItems[k]]
    /\ UNCHANGED <<tagVars, ledgerVars, syncStatus, lastSyncTime, lastError,
                   syncCount, entities, haReady, triggers, responses, now,
                   appVars, rateVars>>

\* A retry pass selects an item and starts to re-execute its stage
RetrySelect(key) ==
    /\ key \in DOMAIN retryItems
    /\ RetryEligible(retryItems[key])
    /\ retryItems' = [retryItems EXCEPT ![key].status = "in-progress"]
    /\ UNCHANGED <<tagVars, ledgerVars, syncStatus, lastSyncTime, lastError,
                   syncCount, entities, haReady, triggers, responses, now,
                   appVars, rateVars>>

\* The re-executed stage succeeds: the item is removed
RetrySucceed(key) ==
    /\ key \in DOMAIN retryItems
    /\ retryItems[key].status = "in-progress"
    /\ retryItems' = [k \in DOMAIN retryItems \ {key} |-> retryItems[k]]
    /\ UNCHANGED <<tagVars, ledgerVars, syncStatus, lastSyncTime, lastError,
                   syncCount, entities, haReady, triggers, responses, now,
                   appVars, rateVars>>

\* The re-executed stage fails again: attempts is incremented and the item is
\* re-persisted with its backoff, or abandoned when attempts reaches the
\* maximum
RetryFail(key) ==
    /\ key \in DOMAIN retryItems
    /\ retryItems[key].status = "in-progress"
    /\ LET item == retryItems[key]
           attempts == item.attempts + 1
       IN  retryItems' = [retryItems EXCEPT ![key] =
               [item EXCEPT !.attempts = attempts,
                            !.lastError = "StageFailure",
                            !.nextEligibleAt = now + Backoff(attempts),
                            !.status = IF attempts >= MaxAttempts
                                       THEN "abandoned" ELSE "pending"]]
    /\ UNCHANGED <<tagVars, ledgerVars, syncStatus, lastSyncTime, lastError,
                   syncCount, entities, haReady, triggers, responses, now,
                   appVars, rateVars>>

\* Time passes for the engine
RetryTick ==
    /\ now < MaxRetryTime
    /\ now' = now + 1
    /\ UNCHANGED <<tagVars, ledgerVars, syncStatus, lastSyncTime, lastError,
                   syncCount, entities, haReady, triggers, responses,
                   appVars, engineVars>>

(***************************************************************************)
(* The Store Client's rate limiter: a bucket of as many tokens as the      *)
(* quota; a dispatched call takes a token, a call that finds the bucket    *)
(* empty is suspended until a token is available.                          *)
(***************************************************************************)
Workers == 1..MaxWorkers

\* a limiter that puts a token back one tick after it was taken
TokenReturnTime_NextTick(taken) ==
    taken + 1

\* The time at which a token taken at time taken is available again: when
\* the call it paid for has left the rolling window
TokenReturnTime(taken) ==
    taken + WindowTicks

\* The limiter lets a call through at the present time
Dispatch ==
    /\ tokens > 0
    /\ tokens' = tokens - 1
    /\ tokenReturns' = Append(tokenReturns, TokenReturnTime(now))
    /\ dispatched' = Append(dispatched, now)

\* Worker w calls the Store Client: the call is dispatched, or suspended when
\* the bucket is empty
StoreCall(w) ==
    /\ workers[w] = "idle"
    /\ IF tokens > 0
       THEN Dispatch /\ UNCHANGED workers
       ELSE /\ workers' = [workers EXCEPT ![w] = "waiting"]
            /\ UNCHANGED <<tokens, tokenReturns, dispatched>>
    /\ UNCHANGED <<tagVars, ledgerVars, syncStatus, lastSyncTime, lastError,
                   syncCount, entities, haReady, triggers, responses, now,
                   appVars, retryVars>>

\* A token is available: the suspended call of worker w is dispatched
StoreResume(w) ==
    /\ workers[w] = "waiting"
    /\ Dispatch
    /\ workers' = [workers EXCEPT ![w] = "idle"]
    /\ UNCHANGED <<tagVars, ledgerVars, syncStatus, lastSyncTime, lastError,
                   syncCount, entities, haReady, triggers, responses, now,
                   appVars, retryVars>>

\* Time passes for the limiter: the tokens that are due come back
RateTick ==
    /\ now < MaxRateTime
    /\ now' = now + 1
    /\ LET due == SelectSeq(tokenReturns, LAMBDA t : t <= now + 1)
       IN  /\ tokens' = tokens + Len(due)
           /\ tokenReturns' = SelectSeq(tokenReturns, LAMBDA t : t > now + 1)
    /\ UNCHANGED <<tagVars, ledgerVars, syncStatus, lastSyncTime, lastError,
                   syncCount, entities, haReady, triggers, responses,
                   appVars, retryVars, workers, dispatched>>

(***************************************************************************)
(* The client's operations.  A call that issues one data request is one    *)
(* action; updateTransactionNotes is two, its read and its write, since    *)
(* other calls may run between its awaits.                                 *)
(***************************************************************************)
Idle == [pc |-> "idle"]

NoRet == [op |-> "none", args |-> <<>>, status |-> "none", value |-> <<>>,
          reqs |-> <<>>, err |-> "none", wasAuthenticated |-> FALSE,
          budgetBefore |-> "null"]

\* appendTags is not under test in the specifications of the client
TagsIdle ==
    /\ existingNotes = <<>>
    /\ newTags = <<>>
    /\ once = <<>>
    /\ twice = <<>>
    /\ tagPc = "idle"

\* user text the first transaction carries before any marker is written
Memo == <<"m", "e", "m", "o">>

\* a ledger of n transactions, all cleared, reconciled and of the business
\* category, one per day
EligibleLedger(n) ==
    [t \in 1..n |-> [date |-> IF t <= MaxDay THEN t ELSE MaxDay,
                     cleared |-> TRUE, reconciled |-> TRUE,
                     category |-> "catBusiness"]]

\* every ledger of n transactions
Ledgers(n) == [1..n -> TxAttrs]

\* The state after construction, for a ledger among ledgers and a server
\* that may fail (faults) or not
InitClient(ledgers, faults) ==
    /\ TagsIdle
    /\ isAuthenticated = FALSE
    /\ token = "null"
    /\ headerToken = "unset"
    /\ budgetId = "null"
    /\ serverToken = "none"
    /\ serverFaults = faults
    /\ txAttrs \in ledgers
    /\ notes = [t \in DOMAIN txAttrs |-> IF t = 1 THEN Memo ELSE <<>>]
    /\ calls = [c \in Calls |-> Idle]
    /\ ret = NoRet
    /\ applied = {}
    /\ HAConstructed
    /\ EngineConstructed

\* The call's effect on the client's fields and on the server's session
Commit(w) ==
    /\ isAuthenticated' = w.isAuthenticated
    /\ token' = w.token
    /\ headerToken' = w.headerToken
    /\ budgetId' = w.budgetId
    /\ serverToken' = w.serverToken

Returned(op, args, w, value) ==
    [op |-> op, args |-> args, status |-> "returned", value |-> value,
     reqs |-> w.reqs, err |-> "none", wasAuthenticated |-> isAuthenticated,
     budgetBefore |-> budgetId]

Threw(op, args, w) ==
    [op |-> op, args |-> args, status |-> "threw", value |-> <<>>,
     reqs |-> w.reqs, err |-> w.err, wasAuthenticated |-> isAuthenticated,
     budgetBefore |-> budgetId]

\* The answers the server may give to a request: any of them when the server
\* may fail, the usual one otherwise
Answers(all, usual) == IF serverFaults THEN all ELSE {usual}

\* The answers to the requests of ensureAuthenticated: one choice when the
\* client is authenticated and issues none
ProbeChoices == IF isAuthenticated THEN {"ok"} ELSE Answers({"ok", "fail"}, "ok")
LoginChoices(probe) ==
    IF isAuthenticated \/ probe # "ok" THEN {"nested"}
    ELSE Answers(LoginOutcomes, "nested")
IssuedChoices(probe, login) ==
    IF isAuthenticated \/ probe # "ok" \/ login \notin {"nested", "direct"}
    THEN {"tokenA"} ELSE Answers(AuthTokens, "tokenA")

\* ActualBudgetClient.authenticate, called directly (testConnection does)
Authenticate ==
    \E login \in Answers(LoginOutcomes, "nested") :
    \E issued \in IF login \in {"nested", "direct"}
                  THEN Answers(AuthTokens, "tokenA") ELSE {"tokenA"} :
        LET w == authenticate(World, login, issued)
        IN  /\ Commit(w)
            /\ ret' = IF w.err = "none"
                      THEN Returned("authenticate", <<>>, w, <<TRUE>>)
                      ELSE Threw("authenticate", <<>>, w)
            /\ UNCHANGED <<tagVars, haVars, serverFaults, txAttrs, notes, calls,
                           applied>>

\* The server's session ends: the token is no longer accepted
ExpireSession ==
    /\ serverFaults
    /\ serverToken # "none"
    /\ serverToken' = "none"
    /\ UNCHANGED <<tagVars, haVars, clientVars, serverFaults, txAttrs, notes,
                   calls, ret, applied>>

\* The answers the server may give to a data request of a call in world w:
\* one choice when the call has failed already, or when the session the
\* client's token belongs to has ended (the answer is then 401)
DataChoices(w, all, usual) ==
    IF w.err # "none" \/ DataOutcome(w, usual) = "authExpired" THEN {usual}
    ELSE Answers(all, usual)

\* ActualBudgetClient.getPayees
GetPayees ==
    \E probe \in ProbeChoices : \E login \in LoginChoices(probe) :
    \E issued \in IssuedChoices(probe, login) :
        LET w1 == ensureAuthenticated(World, probe, login, issued)
        IN  \E answer \in DataChoices(w1, {"ok", "error"}, "ok") :
            LET w2 == IF w1.err # "none" THEN w1
                      ELSE IF w1.budgetId = "null"
                      THEN [w1 EXCEPT !.err = "No budget loaded"]
                      ELSE LET o == DataOutcome(w1, answer)
                               w == Req(w1, "GET /api/payees", o)
                           IN  IF o = "ok" THEN w ELSE [w EXCEPT !.err = o]
            IN  /\ Commit(w2)
                /\ ret' = IF w2.err = "none"
                          THEN Returned("getPayees", <<>>, w2, <<>>)
                          ELSE Threw("getPayees", <<>>, w2)
                /\ UNCHANGED <<tagVars, haVars, serverFaults, txAttrs, notes,
                               calls, applied>>

\* The answers to the three requests of loadBudget, each tried only when
\* the one before it did not answer 200
LoadChoices(w) ==
    {<<sync, download, access>> :
        sync \in DataChoices(w, StatusOutcomes, "ok"),
        download \in DataChoices(w, StatusOutcomes, "ok"),
        access \in DataChoices(w, StatusOutcomes, "ok")}
    \ {c \in StatusOutcomes \X StatusOutcomes \X StatusOutcomes :
          \/ c[1] = "ok" /\ (c[2] # "ok" \/ c[3] # "ok")
          \/ c[2] = "ok" /\ c[3] # "ok"}

\* ActualBudgetClient.loadBudget
LoadBudget(id) ==
    \E probe \in ProbeChoices : \E login \in LoginChoices(probe) :
    \E issued \in IssuedChoices(probe, login) :
        LET w1 == ensureAuthenticated(World, probe, login, issued)
        IN  \E load \in LoadChoices(w1) :
            LET w2 == IF w1.err # "none" THEN w1
                      ELSE loadBudget(w1, id, load[1], load[2], load[3])
            IN  /\ Commit(w2)
                /\ ret' = IF w2.err = "none"
                          THEN Returned("loadBudget", <<id>>, w2, <<TRUE>>)
                          ELSE Threw("loadBudget", <<id>>, w2)
                /\ UNCHANGED <<tagVars, haVars, serverFaults, txAttrs, notes,
                               calls, applied>>

FetchShapes == {"transactions", "nested", "array", "other", "string", "error"}

\* the filter of getReconciledTransactions
Selected(all, since) ==
    SelectSeq(all, LAMBDA tx :
        tx.date >= since /\ (tx.cleared = TRUE \/ tx.reconciled = TRUE))

\* The answers to the two requests of getBudgets, the second issued only
\* when the first produced no budgets
BudgetChoices(w) ==
    {c \in DataChoices(w, ListShapes, "array") \X DataChoices(w, AltShapes, "array") :
        ~AsksFallback(c[1]) => c[2] = "array"}

\* ActualBudgetClient.getBudgets
GetBudgets ==
    \E probe \in ProbeChoices : \E login \in LoginChoices(probe) :
    \E issued \in IssuedChoices(probe, login) :
        LET w1 == ensureAuthenticated(World, probe, login, issued)
        IN  \E list \in BudgetChoices(w1) :
            LET got == IF w1.err # "none" THEN [w |-> w1, budgets |-> <<>>]
                       ELSE getBudgets(w1, list[1], list[2])
            IN  /\ Commit(got.w)
                /\ ret' = IF got.w.err = "none"
                          THEN Returned("getBudgets", <<>>, got.w, got.budgets)
                          ELSE Threw("getBudgets", <<>>, got.w)
                /\ UNCHANGED <<tagVars, haVars, serverFaults, txAttrs, notes,
                               calls, applied>>

\* ActualBudgetClient.getReconciledTransactions(categoryGroupId, since)
GetReconciledTransactions(categoryGroupId, since) ==
    \E probe \in ProbeChoices : \E login \in LoginChoices(probe) :
    \E issued \in IssuedChoices(probe, login) :
        LET w1 == ensureAuthenticated(World, probe, login, issued)
            autoLoad == w1.err = "none" /\ w1.budgetId = "null"
        IN  \E list \in IF autoLoad THEN BudgetChoices(w1) ELSE {<<"array", "array">>} :
            \E load \in IF autoLoad /\ getBudgets(w1, list[1], list[2]).budgets
                                           \notin {<<>>, <<"noId">>, <<"null">>}
                        THEN LoadChoices(w1) ELSE {<<"ok", "ok", "ok">>} :
            LET w2 == IF autoLoad
                      THEN autoLoadBudget(w1, list[1], list[2],
                                          load[1], load[2], load[3])
                      ELSE w1
            IN  \E fetch \in DataChoices(w2, FetchShapes, "transactions") :
                LET args == <<categoryGroupId, since>>
                    o == DataOutcome(w2, fetch)
                    w3 == Req(w2, "POST /sync/sync since=0", o)
                    allTransactions ==
                        IF o \in {"transactions", "nested", "array"}
                        THEN AllTransactions ELSE <<>>
                IN  /\ Commit(IF w2.err # "none" THEN w2 ELSE w3)
                    /\ ret' = IF w2.err # "none"
                              THEN Threw("getReconciledTransactions", args, w2)
                              ELSE Returned("getReconciledTransactions", args, w3,
                                            Selected(allTransactions, since))
                    /\ UNCHANGED <<tagVars, haVars, serverFaults, txAttrs, notes,
                                   calls, applied>>

(***************************************************************************)
(* The marker appends.                                                     *)
(***************************************************************************)
Digits == <<"0", "1", "2", "3", "4", "5", "6", "7", "8", "9">>
TwoDigits(n) == <<Digits[(n \div 10) + 1], Digits[(n % 10) + 1]>>

\* Date.prototype.toISOString().split('T')[0] of a day of January 2024
ISODate(day) == <<"2", "0", "2", "4", "-", "0", "1", "-">> \o TwoDigits(day)

\* new Date(): the calls are made on the last day of the calendar
Today == MaxDay

XanoTag == <<"#", "x", "a", "n", "o">>
XeroTag == <<"#", "x", "e", "r", "o">>
PaidTags(paidDate) == <<"#", "p", "a", "i", "d", " ", "#">> \o ISODate(paidDate)

\* the tags addXanoTag, addXeroTag and addPaidTag pass to updateTransactionNotes
MarkerTags == {XanoTag, XeroTag, PaidTags(Today)}

\* getTransaction that takes a 200 answer without a body for a transaction
getTransaction_IgnoresEmptyBody(w, answer) ==
    LET o == DataOutcome(w, answer)
        w1 == Req(w, "GET /api/transactions/id", o)
    IN  IF o = "notFound" THEN [w1 EXCEPT !.err = "Transaction not found"]
        ELSE IF o \notin {"ok", "empty"} THEN [w1 EXCEPT !.err = o]
        ELSE w1

\* ActualBudgetClient.getTransaction followed by the caller's test of its
\* result: a 404 and an answer without a body give null, which the caller
\* turns into 'Transaction not found'; any other failure is rethrown
getTransaction(w, answer) ==
    LET o == DataOutcome(w, answer)
        w1 == Req(w, "GET /api/transactions/id", o)
    IN  IF o \in {"notFound", "empty"}
        THEN [w1 EXCEPT !.err = "Transaction not found"]
        ELSE IF o # "ok" THEN [w1 EXCEPT !.err = o]
        ELSE w1

\* ActualBudgetClient.updateTransactionNotes up to its read: call c reads the
\* transaction (getTransaction) and computes the notes it will write
UpdateNotesRead(c, transactionId, tags) ==
    /\ calls[c].pc = "idle"
    /\ \E probe \in ProbeChoices : \E login \in LoginChoices(probe) :
       \E issued \in IssuedChoices(probe, login) :
       \E answer \in IF transactionId = MissingTx THEN {"notFound"}
                     ELSE Answers({"ok", "empty", "error"}, "ok") :
        LET args == <<transactionId, tags>>
            w1 == ensureAuthenticated(World, probe, login, issued)
            w3 == IF w1.err # "none" THEN w1
                  ELSE IF w1.budgetId = "null"
                  THEN [w1 EXCEPT !.err = "No budget loaded"]
                  ELSE getTransaction(w1, answer)
        IN  /\ Commit(w3)
            /\ IF w3.err # "none"
               THEN /\ ret' = Threw("updateTransactionNotes", args, w3)
                    /\ UNCHANGED calls
               ELSE /\ calls' = [calls EXCEPT ![c] =
                            [pc |-> "patch", tx |-> transactionId, tags |-> tags,
                             updatedNotes |-> appendTags(notes[transactionId], tags),
                             reqs |-> w3.reqs]]
                    /\ UNCHANGED ret
    /\ UNCHANGED <<tagVars, haVars, serverFaults, txAttrs, notes, applied>>

\* ActualBudgetClient.updateTransactionNotes from its write: call c patches
\* the transaction's notes and returns
UpdateNotesPatch(c) ==
    /\ calls[c].pc = "patch"
    /\ \E answer \in Answers(StatusOutcomes, "ok") :
        LET call == calls[c]
            args == <<call.tx, call.tags>>
            o == DataOutcome(World, answer)
            w1 == Req([World EXCEPT !.reqs = call.reqs],
                      "PATCH /api/transactions/id", o)
            w2 == IF o = "ok" THEN w1 ELSE [w1 EXCEPT !.err = o]
        IN  /\ notes' = IF o = "ok"
                        THEN [notes EXCEPT ![call.tx] = call.updatedNotes]
                        ELSE notes
            /\ applied' = IF o = "ok" THEN applied \cup {args} ELSE applied
            /\ ret' = IF o = "ok"
                      THEN Returned("updateTransactionNotes", args, w2, <<TRUE>>)
                      ELSE Threw("updateTransactionNotes", args, w2)
    /\ calls' = [calls EXCEPT ![c] = Idle]
    /\ UNCHANGED <<tagVars, haVars, clientVars, serverFaults, serverToken,
                   txAttrs>>

(***************************************************************************)
(* Spec: the client against a server that answers every request, with     *)
(* concurrent marker appends on a ledger of eligible transactions.         *)
(***************************************************************************)
Init == InitClient({EligibleLedger(MaxRaceTx)}, FALSE)

Next ==
    \/ \E id \in Range(ServerBudgets) : LoadBudget(id)
    \/ \E g \in CategoryGroups, since \in Days : GetReconciledTransactions(g, since)
    \/ \E c \in Calls, t \in TxIds \cup {MissingTx}, tags \in MarkerTags :
           UpdateNotesRead(c, t, tags)
    \/ \E c \in Calls : UpdateNotesPatch(c)

Spec == Init /\ [][Next]_vars

(***************************************************************************)
(* SpecSelect: the selection of transactions on every ledger of MaxTx      *)
(* transactions, against a server that answers every request.              *)
(***************************************************************************)
InitSelect == InitClient(Ledgers(MaxTx), FALSE)

NextSelect ==
    \/ \E id \in Range(ServerBudgets) : LoadBudget(id)
    \/ \E g \in CategoryGroups, since \in Days : GetReconciledTransactions(g, since)

SpecSelect == InitSelect /\ [][NextSelect]_vars

(***************************************************************************)
(* SpecFaults: the client against a server that may refuse, fail, answer   *)
(* in any of the shapes the client expects, and end the session.           *)
(***************************************************************************)
InitFaults == InitClient({EligibleLedger(MaxRaceTx)}, TRUE)

NextFaults ==
    \/ Authenticate
    \/ ExpireSession
    \/ GetPayees
    \/ GetBudgets
    \/ \E id \in Range(ServerBudgets) : LoadBudget(id)
    \/ GetReconciledTransactions("grpBusiness", 1)

SpecFaults == InitFaults /\ [][NextFaults]_vars

(***************************************************************************)
(* SpecNotes: the marker appends against a server that may fail the read   *)
(* or the write of a transaction.                                          *)
(***************************************************************************)
InitNotes == InitClient({EligibleLedger(MaxRaceTx)}, TRUE)

NextNotes ==
    \/ \E id \in Range(ServerBudgets) : LoadBudget(id)
    \/ \E c \in Calls, t \in TxIds \cup {MissingTx}, tags \in {XanoTag, XeroTag} :
           UpdateNotesRead(c, t, tags)
    \/ \E c \in Calls : UpdateNotesPatch(c)

SpecNotes == InitNotes /\ [][NextNotes]_vars

(***************************************************************************)
(* Claims about the selection and the markers.                             *)
(***************************************************************************)
\* the last completed call is a getReconciledTransactions that returned
FetchReturned ==
    ret.op = "getReconciledTransactions" /\ ret.status = "returned"

\* C1: no transaction getReconciledTransactions returns carries the #xero
\* marker in its notes, so a second run over the same window selects nothing
\* the first run has posted.
C1_NoPostedTransactionSelected ==
    FetchReturned =>
        \A i \in 1..Len(ret.value) : ~HasToken(ret.value[i].notes, XeroTag)

\* C2: every transaction getReconciledTransactions returns is both cleared
\* and reconciled.
C2_ClearedAndReconciled ==
    FetchReturned =>
        \A i \in 1..Len(ret.value) :
            ret.value[i].cleared /\ ret.value[i].reconciled

\* C3: every transaction getReconciledTransactions returns has a category of
\* the category group the call was given.
C3_CategoryOfGroup ==
    FetchReturned =>
        \A i \in 1..Len(ret.value) : GroupOf(ret.value[i].category) = ret.args[1]

\* C4: no step removes a token (a marker or a word of the user's text) from
\* the notes of a transaction.
C4_MarkersNeverRemoved ==
    [][\A t \in TxIds :
          Range(Tokens(notes[t])) \subseteq Range(Tokens(notes'[t]))]_vars

\* C5: when two appends of different markers to one transaction have both
\* completed, the notes of the transaction carry the markers of both.
C5_NoLostUpdate ==
    \A a \in applied, b \in applied :
        (a[1] = b[1] /\ a[2] # b[2]) =>
            Range(Tokens(a[2])) \cup Range(Tokens(b[2]))
                \subseteq Range(Tokens(notes[a[1]]))

(***************************************************************************)
(* Claims about failures.                                                  *)
(***************************************************************************)
\* the requests of the last call that the server answered 401
Expired(reqs) == {i \in 1..Len(reqs) : reqs[i][2] = "authExpired"}

C10_FetchFailurePropagates ==
    (/\ ret.op = "getReconciledTransactions"
     /\ ret.reqs # <<>>
     /\ ret.reqs[Len(ret.reqs)] = <<"POST /sync/sync since=0", "error">>)
        => ret.status = "threw"

\* C17: for every window {since, until}, the transactions returned to the
\* run of that window (which calls getReconciledTransactions with since) are
\* dated inside it: date >= since and date <= until.
C17_InsideWindow ==
    FetchReturned =>
        \A until \in Days :
            ret.args[2] <= until =>
                \A i \in 1..Len(ret.value) :
                    /\ ret.value[i].date >= ret.args[2]
                    /\ ret.value[i].date <= until

\* C20: when loadBudget throws, budgetId has the value it had before the
\* call.
C20_FailedLoadKeepsBudget ==
    (ret.op = "loadBudget" /\ ret.status = "threw") =>
        budgetId = ret.budgetBefore

\* the requests of ensureAuthenticated; every other request asks the server
\* for data
AuthEndpoints == {"GET /", "POST /account/login"}
DataRequests(reqs) == {i \in 1..Len(reqs) : reqs[i][1] \notin AuthEndpoints}

\* the operations that read or write the data of the loaded budget
DataOperations == {"getCategories", "getCategoryGroups", "findCategoryGroupByName",
                   "getPayees", "getReconciledTransactions", "getTransaction",
                   "updateTransactionNotes"}

\* C11: a data operation called while no budget is loaded throws 'No budget
\* loaded', issues no data request and leaves budgetId unset.
C11_NoBudgetIsFatal ==
    (ret.op \in DataOperations /\ ret.budgetBefore = "null") =>
        /\ ret.status = "threw"
        /\ ret.err = "No budget loaded"
        /\ DataRequests(ret.reqs) = {}
        /\ budgetId = "null"

\* the login of the last call was rejected or answered without a token
AuthFailed(reqs) ==
    \E i \in 1..Len(reqs) :
        reqs[i][1] = "POST /account/login" /\ reqs[i][2] \in {"noToken", "rejected"}

\* C12: when an unauthenticated client fails to authenticate, the operation
\* throws the authentication error, issues no data request and the client
\* stays unauthenticated.
C12_AuthFailureIsFatal ==
    (ret.op # "none" /\ ~ret.wasAuthenticated /\ AuthFailed(ret.reqs)) =>
        /\ ret.status = "threw"
        /\ ret.err \in {"No token received from authentication", "login rejected"}
        /\ DataRequests(ret.reqs) = {}
        /\ ~isAuthenticated

\* C12 witness: getReconciledTransactions of an unauthenticated client threw
\* because the login was rejected.
C12_Witness ==
    /\ ret.op = "getReconciledTransactions"
    /\ ~ret.wasAuthenticated
    /\ ret.reqs = <<<<"GET /", "ok">>, <<"POST /account/login", "rejected">>>>
    /\ ret.status = "threw"
    /\ ~isAuthenticated

(***************************************************************************)
(* Claims about the order of the client's requests.                        *)
(***************************************************************************)
\* the data requests of a call, in the order in which it issued them
DataSeq(reqs) == SelectSeq(reqs, LAMBDA q : q[1] \notin AuthEndpoints)

\* C21: loadBudget probes POST /sync/sync first, POST /sync/download-user-file
\* only if the first did not answer 200, and GET /api/categories only if
\* neither answered 200; it issues nothing after the first success, and when
\* it returns true budgetId is the id it was given.
C21_LoadProbeOrder ==
    ret.op = "loadBudget" =>
        LET d == DataSeq(ret.reqs)
        IN  /\ Len(d) <= 3
            /\ Len(d) >= 1 => d[1][1] = "POST /sync/sync since=null"
            /\ Len(d) >= 2 => d[2][1] = "POST /sync/download-user-file"
            /\ Len(d) >= 3 => d[3][1] = "GET /api/categories"
            /\ Len(d) >= 2 <=> (Len(d) >= 1 /\ d[1][2] # "ok")
            /\ Len(d) >= 3 <=> (Len(d) >= 2 /\ d[2][2] # "ok")
            /\ ret.status = "returned" =>
                   /\ Len(d) >= 1
                   /\ budgetId = ret.args[1]

\* C21 witness: a loadBudget returned true after the first two endpoints did
\* not answer 200 and the access check succeeded.
C21_Witness ==
    /\ ret.op = "loadBudget"
    /\ ret.status = "returned"
    /\ DataSeq(ret.reqs) = <<<<"POST /sync/sync since=null", "non200">>,
                             <<"POST /sync/download-user-file", "error">>,
                             <<"GET /api/categories", "ok">>>>
    /\ budgetId = ret.args[1]

\* C22: whenever isAuthenticated is true, token is not null and the
\* X-ACTUAL-TOKEN default header equals token; and after a call whose login
\* failed (authenticate itself or an operation that authenticates first)
\* isAuthenticated is false.
C22_AuthStateInvariant ==
    /\ isAuthenticated => (token # "null" /\ headerToken = token)
    /\ (ret.op = "authenticate" /\ ret.status = "threw") => ~isAuthenticated
    /\ AuthFailed(ret.reqs) => ~isAuthenticated

\* C22 witness: a client that had authenticated with the second token called
\* authenticate again and the login failed.
C22_Witness ==
    /\ ret.op = "authenticate"
    /\ ret.status = "threw"
    /\ ret.wasAuthenticated
    /\ token = "tokenB"
    /\ headerToken = "tokenB"
    /\ ~isAuthenticated

\* the requests of ensureAuthenticated among those of a call, in order
AuthSeq(reqs) == SelectSeq(reqs, LAMBDA q : q[1] \in AuthEndpoints)

\* the operations whose record in ret covers one call of ensureAuthenticated
\* from its start (authenticate does not call it; the record of
\* updateTransactionNotes is written by its second step)
EnsuringCall == ret.op \notin {"none", "authenticate", "updateTransactionNotes"}

\* C23: an operation of an authenticated client issues no probe and no login;
\* an operation of an unauthenticated client issues GET / first, then the
\* login if the probe succeeded; if the probe fails it issues nothing else
\* and throws the cannot-connect error.
C23_EnsureAuthenticatedOrder ==
    EnsuringCall =>
        LET a == AuthSeq(ret.reqs)
        IN  /\ ret.wasAuthenticated => a = <<>>
            /\ ~ret.wasAuthenticated =>
                   /\ Len(a) >= 1
                   /\ ret.reqs[1] = a[1]
                   /\ a[1][1] = "GET /"
                   /\ a[1][2] # "ok" =>
                          /\ ret.reqs = <<a[1]>>
                          /\ ret.status = "threw"
                          /\ ret.err = "Cannot connect to Actual Budget server"
                   /\ a[1][2] = "ok" =>
                          /\ Len(a) = 2
                          /\ ret.reqs[2] = a[2]
                          /\ a[2][1] = "POST /account/login"

\* C23 witness: loadBudget of an unauthenticated client failed at the probe
\* and issued no login.
C23_Witness ==
    /\ ret.op = "loadBudget"
    /\ ~ret.wasAuthenticated
    /\ ret.reqs = <<<<"GET /", "fail">>>>
    /\ ret.status = "threw"
    /\ ret.err = "Cannot connect to Actual Budget server"

\* the requests of updateTransactionNotes
ReadEndpoint == "GET /api/transactions/id"
PatchEndpoint == "PATCH /api/transactions/id"
Patches(reqs) == {i \in 1..Len(reqs) : reqs[i][1] = PatchEndpoint}

\* C24: updateTransactionNotes issues its PATCH only right after a read of
\* the transaction that succeeded, and the notes it writes are appendTags of
\* the notes read and the new tags; when the read finds no transaction or
\* fails, the call throws without a PATCH; and the ledger's notes change only
\* in the step of a PATCH, to the notes that call computed.
C24_ReadBeforeWrite ==
    /\ [](ret.op = "updateTransactionNotes" =>
              /\ \A i \in Patches(ret.reqs) :
                     i > 1 /\ ret.reqs[i - 1] = <<ReadEndpoint, "ok">>
              /\ (ret.reqs # <<>> /\ ret.reqs[Len(ret.reqs)][1] = ReadEndpoint) =>
                     /\ ret.reqs[Len(ret.reqs)][2] # "ok"
                     /\ ret.status = "threw"
                     /\ Patches(ret.reqs) = {})
    /\ [][/\ \A c \in Calls :
                (calls[c].pc = "idle" /\ calls'[c].pc = "patch") =>
                    calls'[c].updatedNotes =
                        appendTags(notes[calls'[c].tx], calls'[c].tags)
          /\ \A c \in Calls :
                (calls[c].pc = "patch" /\ calls'[c].pc = "idle") =>
                    \/ notes' = notes
                    \/ notes' = [notes EXCEPT ![calls[c].tx] = calls[c].updatedNotes]
          /\ (\A c \in Calls : ~(calls[c].pc = "patch" /\ calls'[c].pc = "idle"))
                => notes' = notes]_vars

\* C24 witness: after a marker was written, an append to a transaction the
\* ledger does not hold threw 'Transaction not found' with no PATCH, and the
\* ledger holds what the earlier append wrote.
C24_Witness ==
    /\ ret.op = "updateTransactionNotes"
    /\ ret.args[1] = MissingTx
    /\ ret.status = "threw"
    /\ ret.err = "Transaction not found"
    /\ Patches(ret.reqs) = {}
    /\ applied = {<<1, XanoTag>>}
    /\ notes[1] = appendTags(Memo, XanoTag)

\* C28: a getBudgets that got past ensureAuthenticated returns an array
\* and does not throw, whatever the two endpoints answer, and it queries GET
\* /api/budgets only when GET /sync/list-user-files produced no budgets.
C28_BudgetsAlwaysArray ==
    (ret.op = "getBudgets" /\ DataSeq(ret.reqs) # <<>>) =>
        LET d == DataSeq(ret.reqs)
        IN  /\ ret.status = "returned"
            /\ ret.value \in Seq({"budget1", "noId"})
            /\ d[1][1] = "GET /sync/list-user-files"
            /\ Len(d) <= 2
            /\ Len(d) = 2 =>
                   /\ d[2][1] = "GET /api/budgets"
                   /\ BudgetsOfList(d[1][2]) = <<>>

(***************************************************************************)
(* SpecHA: the Home Assistant service under concurrent sync triggers.      *)
(***************************************************************************)
InitHA == InitClient({EligibleLedger(MaxRaceTx)}, FALSE)

NextHA ==
    \/ HAInit
    \/ Tick
    \/ \E r \in Requests, route \in TriggerRoutes : TriggerStart(r, route)
    \/ \E r \in Requests : TriggerSucceed(r)
    \/ \E r \in Requests : TriggerFail(r)
    \/ \E r \in Requests : Connect(r)
    \/ \E r \in Requests : Disconnect(r)
    \/ \E signal \in {"SIGTERM", "SIGINT"} : Shutdown(signal)
    \/ Exit

SpecHA == InitHA /\ [][NextHA]_vars

\* C8: at most one sync run is in progress at any time.
C8_SingleRun ==
    Cardinality({r \in Requests : triggers[r].pc = "syncing"}) <= 1

\* SpecHALive: the timer of simulateSync fires and the call goes on, as long
\* as the process lives.
SpecHALive ==
    /\ InitHA
    /\ [][NextHA]_vars
    /\ \A r \in Requests : WF_vars(TriggerSucceed(r) \/ TriggerFail(r))

\* a sync run is in progress for request r
InFlight(r) == triggers[r].pc = "syncing"

\* handleSyncTrigger has returned a result object to the route of request r
HasReturned(r) ==
    /\ triggers[r].pc = "idle"
    /\ "result" \in DOMAIN triggers[r]
    /\ \/ triggers[r].result = [success |-> TRUE,
                                 message |-> "Sync completed successfully"]
       \/ triggers[r].result = [success |-> FALSE,
                                 error |-> "Simulated sync failure for testing"]

\* C13: once isShuttingDown is true, no step starts a sync run.
C13_NoRunAfterShutdown ==
    [][isShuttingDown =>
          \A r \in Requests : InFlight(r)' => InFlight(r)]_vars

\* C14: the process has not exited while a triggered sync is in flight,
\* unless the grace period has passed since the shutdown signal.
C14_DrainBeforeExit ==
    exited =>
        \/ \A r \in Requests : ~InFlight(r)
        \/ now - shutdownAt[1] >= ShutdownTimeout

\* C15: the status getStatus reports is 'running' exactly while a triggered
\* sync is in progress, and 'idle' whenever none is.
C15_IdleOrRunning ==
    getStatus.status =
        IF \E r \in Requests : InFlight(r) THEN "running" ELSE "idle"

\* C16: every handleSyncTrigger call eventually returns a result object,
\* {success: true, message} or {success: false, error}.
C16_EveryCallReturns ==
    \A r \in Requests : InFlight(r) ~> HasReturned(r)

\* the step in which the handleSyncTrigger call of request r returns
Returns(r) == InFlight(r) /\ HasReturned(r)'

\* C25: in the step in which a handleSyncTrigger call returns, a result with
\* success = true comes with syncStatus 'completed', lastError null and
\* lastSyncTime set; a result with success = false comes with syncStatus
\* 'error', lastError equal to the returned error, and lastSyncTime as it was.
C25_TriggerOutcomeConsistency ==
    [][\A r \in Requests :
          Returns(r) =>
              IF triggers'[r].result.success
              THEN /\ syncStatus' = "completed"
                   /\ lastError' = "null"
                   /\ lastSyncTime' # Null
              ELSE /\ syncStatus' = "error"
                   /\ lastError' = triggers'[r].result.error
                   /\ lastSyncTime' = lastSyncTime]_vars

\* C25 witness: a trigger failed after an earlier one had succeeded; the
\* status is 'error', the error is the returned one and the last sync time
\* is still the earlier one.
C25_Witness ==
    \E r \in Requests :
        /\ HasReturned(r)
        /\ ~triggers[r].result.success
        /\ syncStatus = "error"
        /\ lastError = triggers[r].result.error
        /\ lastSyncTime # Null
        /\ lastSyncTime[1] < now

\* C26: syncCount starts at 0, grows by one in every step in which a
\* handleSyncTrigger call returns success, and is left alone by every other
\* step (a failed trigger included); so it equals the number of successful
\* triggers and never decreases.
C26_SyncCountAccuracy ==
    /\ syncCount = 0
    /\ [][syncCount' = syncCount +
              Cardinality({r \in Requests :
                  Returns(r) /\ triggers'[r].result.success})]_vars

\* C26 witness: of two concurrent triggers one succeeded and one failed, and
\* the count is one.
C26_Witness ==
    /\ syncCount = 1
    /\ \E r \in Requests, q \in Requests :
           /\ HasReturned(r) /\ triggers[r].result.success
           /\ HasReturned(q) /\ ~triggers[q].result.success

\* the entities init publishes
EntityIds == {"sync_status", "last_sync", "sync_count", "last_error"}

\* C27: after init, exactly the four entities exist, and the state of each
\* is the field it publishes: syncStatus, syncCount, lastError, and the ISO
\* string of lastSyncTime (null while no sync has succeeded).
C27_EntitiesMirrorState ==
    haReady =>
        /\ DOMAIN entities = EntityIds
        /\ Len(getEntities) = 4
        /\ entities["sync_status"].state = syncStatus
        /\ entities["sync_count"].state = syncCount
        /\ entities["last_error"].state = lastError
        /\ entities["last_sync"].state =
               IF lastSyncTime = Null THEN Null ELSE toISOString(lastSyncTime)

\* C27 witness: a sync succeeded and a later one failed; the entities carry
\* the error, the count and the ISO string of the time of the success.
C27_Witness ==
    /\ haReady
    /\ syncStatus = "error"
    /\ syncCount = 1
    /\ lastSyncTime = DateOf(1)
    /\ entities["last_sync"].state = <<"iso", 1>>
    /\ entities["last_error"].state = "Simulated sync failure for testing"
    /\ entities["sync_count"].state = 1

(***************************************************************************)
(* SpecRetry: the Reprocessing Engine.                                     *)
(***************************************************************************)
InitRetry == InitClient({EligibleLedger(MaxRaceTx)}, FALSE)

NextRetry ==
    \/ \E key \in RetryKeys : EnqueueRetry(key)
    \/ \E key \in RetryKeys : RetrySelect(key)
    \/ \E key \in RetryKeys : RetrySucceed(key)
    \/ \E key \in RetryKeys : RetryFail(key)
    \/ RetryTick

SpecRetry == InitRetry /\ [][NextRetry]_vars

Abandoned(key) ==
    key \in DOMAIN retryItems /\ retryItems[key].status = "abandoned"

\* C18: the attempts of a RetryItem never exceed the configured maximum, and
\* no step selects or re-attempts an item that is abandoned.
C18_BoundedRetry ==
    /\ [](\A key \in DOMAIN retryItems : retryItems[key].attempts <= MaxAttempts)
    /\ [][\A key \in RetryKeys :
             Abandoned(key) =>
                 (key \in DOMAIN retryItems' /\ retryItems'[key] = retryItems[key])]_vars

\* C18 witness: an item was abandoned at the maximum of attempts and the time
\* at which it would be due again has passed.
C18_Witness ==
    \E key \in RetryKeys :
        /\ Abandoned(key)
        /\ retryItems[key].attempts = MaxAttempts
        /\ retryItems[key].nextEligibleAt <= now

(***************************************************************************)
(* SpecRate: the Store Client's rate limiter under concurrent callers.     *)
(***************************************************************************)
InitRate == InitClient({EligibleLedger(MaxRaceTx)}, FALSE)

NextRate ==
    \/ \E w \in Workers : StoreCall(w)
    \/ \E w \in Workers : StoreResume(w)
    \/ RateTick

SpecRate == InitRate /\ [][NextRate]_vars

\* the calls dispatched in the window of WindowTicks ticks that starts at
\* start
DispatchedIn(start) ==
    {i \in 1..Len(dispatched) :
        start <= dispatched[i] /\ dispatched[i] < start + WindowTicks}

TagAlphabet == {"#", "a", "A", " "}

RECURSIVE StringsUpTo(_)
StringsUpTo(n) ==
    IF n = 0 THEN {<<>>}
    ELSE LET shorter == StringsUpTo(n - 1)
         IN  shorter \cup {Append(s, ch) : s \in shorter, ch \in TagAlphabet}

InitTags ==
    /\ existingNotes \in StringsUpTo(MaxNotesLen)
    /\ newTags \in StringsUpTo(MaxTagsLen)
    /\ once = <<>>
    /\ twice = <<>>
    /\ tagPc = "input"
    /\ isAuthenticated = FALSE
    /\ token = "null"
    /\ headerToken = "unset"
    /\ budgetId = "null"
    /\ serverToken = "none"
    /\ serverFaults = FALSE
    /\ txAttrs = EligibleLedger(1)
    /\ notes = [t \in DOMAIN txAttrs |-> Memo]
    /\ calls = [c \in Calls |-> Idle]
    /\ ret = NoRet
    /\ applied = {}
    /\ HAConstructed
    /\ EngineConstructed

ApplyOnce ==
    /\ tagPc = "input"
    /\ once' = appendTags(existingNotes, newTags)
    /\ tagPc' = "once"
    /\ UNCHANGED <<existingNotes, newTags, twice, ledgerVars, haVars>>

ApplyTwice ==
    /\ tagPc = "once"
    /\ twice' = appendTags(once, newTags)
    /\ tagPc' = "twice"
    /\ UNCHANGED <<existingNotes, newTags, once, ledgerVars, haVars>>

NextTags == ApplyOnce \/ ApplyTwice

SpecTags == InitTags /\ [][NextTags]_vars

\* C6: for non-empty existing notes, a '#' tag of newTags is appended if and
\* only if no space-separated token of the notes equals it ignoring case (so a
\* tag that is only a substring of a longer token is still appended).
C6_ExactTokenDedup ==
    (tagPc = "once" /\ Trim(existingNotes) # <<>>) =>
        \A tag \in Range(SelectSeq(Split(Trim(newTags)), StartsWithHash)) :
            (tag \in Range(AddedTokens(existingNotes, once)))
                <=> ~HasToken(existingNotes, tag)

====
